---- MODULE Spec2Model ----
(***************************************************************************)
(* Vague language detection: the segmenter and locator of                  *)
(* utils/text_processor.py, the classifier gateway of                      *)
(* utils/vagueness_detector.py and the analysis run of app.py.             *)
(*                                                                         *)
(* A Python str is a sequence of one-character strings.                    *)
(***************************************************************************)
EXTENDS Integers, Sequences, FiniteSets, TLC

VARIABLES
    \* st.session_state (app.py, initialize_session_state)
    api_key, analysis_complete, is_analyzing, results_list,
    current_progress, total_sentences,
    \* widgets
    uploaded_file, analysis_mode,
    notice,      \* the last st.error / st.success banner of the Analyze handler
    \* locals of the Analyze handler of main(), and of analyze_batch
    pc, use_paragraphs, text_units, text_data,
    run_blocks,  \* the local blocks of the Analyze handler
    loop_i,      \* the loop variable i of the run's for loop
    \* analyze_batch: its arguments and locals
    b_items, b_callback, b_results, b_progress,
    \* the classifier calls of the current run: calls[k] is the index of the
    \* unit of the k-th call, returns[k] what the k-th call got and gave back,
    \* inflight the number of calls started and not yet returned
    calls, returns, inflight,
    \* function-level checks of the segmenter and the locator
    h_op,        \* the function applied ("none" before the call)
    h_text,      \* the text argument
    h_min,       \* the min_length / target_length argument
    h_abbrev,    \* tokenizer behaviour, see sent_tokenize
    h_units,     \* the units given to the locator
    h_blocks,    \* the blocks given to the locator
    h_out        \* the value returned

hvars == <<h_op, h_text, h_min, h_abbrev, h_units, h_blocks, h_out>>

session == <<api_key, analysis_complete, is_analyzing, results_list,
             current_progress, total_sentences>>
widgets == <<uploaded_file, analysis_mode>>
locals == <<use_paragraphs, run_blocks, text_units, text_data, loop_i>>
batch == <<b_items, b_callback, b_results, b_progress>>
gateway == <<calls, returns, inflight>>

appvars == <<session, widgets, notice, pc, locals, batch, gateway>>

vars == <<appvars, hvars>>

(***************************************************************************)
(* Program constants.                                                      *)
(***************************************************************************)
DefaultMinLength == 50
NoiseLen == 10
FallbackLen == 1000
ChunkTarget == 500
SentMinLen == 10
ParaPrefix == 50

(***************************************************************************)
(* Python str primitives.                                                  *)
(***************************************************************************)
Whitespace == {" ", "\n", "\t"}
IsWs(c) == c \in Whitespace

Rep(c, n) == [i \in 1..n |-> c]

Idx(s) == [i \in 1..Len(s) |-> i]

\* s[a:b] of Python for 0 <= a, with b clipped to len(s)
Slice(s, a, b) == SubSeq(s, a + 1, IF b > Len(s) THEN Len(s) ELSE b)

\* s.strip()
strip(s) ==
    LET NonWs(i) == ~IsWs(s[i])
        nw == SelectSeq(Idx(s), NonWs)
    IN  IF nw = <<>> THEN <<>> ELSE SubSeq(s, nw[1], nw[Len(nw)])

\* re.sub(r'\s+', ' ', s): every maximal whitespace run becomes one space
re_sub_ws(s) ==
    LET Keep(i) == ~IsWs(s[i]) \/ i = 1 \/ ~IsWs(s[i - 1])
        kept == SelectSeq(Idx(s), Keep)
    IN  [k \in 1..Len(kept) |-> IF IsWs(s[kept[k]]) THEN " " ELSE s[kept[k]]]

\* a in b  (substring test)
Contains(b, a) ==
    \E k \in 0..(Len(b) - Len(a)) : SubSeq(b, k + 1, k + Len(a)) = a

\* sep.join(list)
RECURSIVE Join(_, _)
Join(list, sep) ==
    IF list = <<>> THEN <<>>
    ELSE IF Len(list) = 1 THEN list[1]
    ELSE list[1] \o sep \o Join(Tail(list), sep)

(***************************************************************************)
(* re.split(r'\n\s*\n', text).  A match starts at the first newline of a   *)
(* whitespace run that holds another newline and, \s* being greedy, ends   *)
(* at the last newline of that run; matches are leftmost and do not        *)
(* overlap.  The pieces are the text between the matches, empty pieces     *)
(* included.                                                               *)
(***************************************************************************)
re_split_blank(text) ==
    LET IsNl(i) == text[i] = "\n"
        nl == SelectSeq(Idx(text), IsNl)
        \* newline k and newline k+1 lie in one whitespace run
        Linked(k) == k >= 1 /\ k < Len(nl)
                     /\ \A j \in (nl[k] + 1)..(nl[k + 1] - 1) : IsWs(text[j])
        IsStart(k) == Linked(k) /\ ~Linked(k - 1)
        IsEnd(k) == Linked(k - 1) /\ ~Linked(k)
        starts == SelectSeq(Idx(nl), IsStart)
        ends == SelectSeq(Idx(nl), IsEnd)
        m == Len(starts)
    IN  [p \in 1..(m + 1) |->
            SubSeq(text,
                   IF p = 1 THEN 1 ELSE nl[ends[p - 1]] + 1,
                   IF p = m + 1 THEN Len(text) ELSE nl[starts[p]] - 1)]

(***************************************************************************)
(* nltk.sent_tokenize (Punkt), a library outside the repository.  A        *)
(* candidate break is a '.', '!' or '?' followed by whitespace and a next  *)
(* token.  Whether Punkt takes a candidate depends on its abbreviation     *)
(* and collocation statistics: abbrev holds the ordinals of the candidates *)
(* it does not take.  The first sentence starts at offset 0, each next one *)
(* at the next token after the break; the last one ends at                 *)
(* len(text.rstrip()); an empty slice is not returned.                     *)
(***************************************************************************)
SentEnd == {".", "!", "?"}

sent_tokenize(text, abbrev) ==
    LET n == Len(text)
        NonWs(i) == ~IsWs(text[i])
        nw == SelectSeq(Idx(text), NonWs)
        last == IF nw = <<>> THEN 0 ELSE nw[Len(nw)]
        IsCand(p) == text[p] \in SentEnd /\ p < last /\ IsWs(text[p + 1])
        cand == SelectSeq(Idx(text), IsCand)
        Taken(k) == k \notin abbrev
        tk == SelectSeq(Idx(cand), Taken)
        m == Len(tk)
        NextTok(p) == CHOOSE j \in (p + 1)..n :
                          NonWs(j) /\ \A i \in (p + 1)..(j - 1) : IsWs(text[i])
        slices == [k \in 1..(m + 1) |->
                     SubSeq(text,
                            IF k = 1 THEN 1 ELSE NextTok(cand[tk[k - 1]]),
                            IF k = m + 1 THEN last ELSE cand[tk[k]])]
        NonEmpty(x) == x # <<>>
    IN  SelectSeq(slices, NonEmpty)

(***************************************************************************)
(* segment_by_length: the loop over the tokenizer's sentences.             *)
(* st = [chunks, current_chunk].                                           *)
(***************************************************************************)
\* mutant: the sentence that closes a chunk is not carried into the next one
chunk_step_drop(st, sentence, target_length) ==
    IF Len(st.current_chunk) + Len(sentence) > target_length
       /\ st.current_chunk # <<>>
    THEN [chunks |-> Append(st.chunks, strip(st.current_chunk)),
          current_chunk |-> <<>>]
    ELSE [chunks |-> st.chunks,
          current_chunk |-> IF st.current_chunk # <<>>
                            THEN st.current_chunk \o <<" ">> \o sentence
                            ELSE sentence]

\* mutant: a sentence is added to the chunk without the joining space
chunk_step_nospace(st, sentence, target_length) ==
    IF Len(st.current_chunk) + Len(sentence) > target_length
       /\ st.current_chunk # <<>>
    THEN [chunks |-> Append(st.chunks, strip(st.current_chunk)),
          current_chunk |-> sentence]
    ELSE [chunks |-> st.chunks,
          current_chunk |-> st.current_chunk \o sentence]

chunk_step(st, sentence, target_length) ==
    IF Len(st.current_chunk) + Len(sentence) > target_length
       /\ st.current_chunk # <<>>
    THEN [chunks |-> Append(st.chunks, strip(st.current_chunk)),
          current_chunk |-> sentence]
    ELSE [chunks |-> st.chunks,
          current_chunk |-> IF st.current_chunk # <<>>
                            THEN st.current_chunk \o <<" ">> \o sentence
                            ELSE sentence]

RECURSIVE chunk_loop(_, _, _, _)
chunk_loop(sentences, k, st, target_length) ==
    IF k > Len(sentences) THEN st
    ELSE chunk_loop(sentences, k + 1,
                    chunk_step(st, sentences[k], target_length), target_length)

chunks_of(sentences, target_length) ==
    LET st == chunk_loop(sentences, 1,
                         [chunks |-> <<>>, current_chunk |-> <<>>], target_length)
    IN  IF st.current_chunk # <<>>
        THEN Append(st.chunks, strip(st.current_chunk))
        ELSE st.chunks

segment_by_length(text, target_length, abbrev) ==
    chunks_of(sent_tokenize(text, abbrev), target_length)

(***************************************************************************)
(* segment_paragraphs: the loop over the split paragraphs.                 *)
(* st = [cleaned_paragraphs, buffer].                                      *)
(***************************************************************************)
\* mutant: only empty paragraphs are skipped (no noise threshold)
para_step_keep_noise(st, raw, min_length) ==
    LET para == strip(re_sub_ws(raw))
    IN  IF Len(para) < 1 THEN st
        ELSE IF Len(para) < min_length /\ st.buffer # <<>>
        THEN [cleaned_paragraphs |-> st.cleaned_paragraphs,
              buffer |-> st.buffer \o <<" ">> \o para]
        ELSE IF Len(para) < min_length
        THEN [cleaned_paragraphs |-> st.cleaned_paragraphs, buffer |-> para]
        ELSE [cleaned_paragraphs |->
                  Append(IF st.buffer # <<>>
                         THEN Append(st.cleaned_paragraphs, st.buffer)
                         ELSE st.cleaned_paragraphs, para),
              buffer |-> <<>>]

\* mutant: a long paragraph is emitted without flushing the pending buffer
para_step_late_flush(st, raw, min_length) ==
    LET para == strip(re_sub_ws(raw))
    IN  IF Len(para) < NoiseLen THEN st
        ELSE IF Len(para) < min_length /\ st.buffer # <<>>
        THEN [cleaned_paragraphs |-> st.cleaned_paragraphs,
              buffer |-> st.buffer \o <<" ">> \o para]
        ELSE IF Len(para) < min_length
        THEN [cleaned_paragraphs |-> st.cleaned_paragraphs, buffer |-> para]
        ELSE [cleaned_paragraphs |-> Append(st.cleaned_paragraphs, para),
              buffer |-> st.buffer]

\* mutant: a paragraph of exactly NoiseLen characters is skipped too
para_step_noise_le(st, raw, min_length) ==
    LET para == strip(re_sub_ws(raw))
    IN  IF Len(para) <= NoiseLen THEN st
        ELSE IF Len(para) < min_length /\ st.buffer # <<>>
        THEN [cleaned_paragraphs |-> st.cleaned_paragraphs,
              buffer |-> st.buffer \o <<" ">> \o para]
        ELSE IF Len(para) < min_length
        THEN [cleaned_paragraphs |-> st.cleaned_paragraphs, buffer |-> para]
        ELSE [cleaned_paragraphs |->
                  Append(IF st.buffer # <<>>
                         THEN Append(st.cleaned_paragraphs, st.buffer)
                         ELSE st.cleaned_paragraphs, para),
              buffer |-> <<>>]

para_step(st, raw, min_length) ==
    LET para == strip(re_sub_ws(raw))
    IN  IF Len(para) < NoiseLen THEN st
        ELSE IF Len(para) < min_length /\ st.buffer # <<>>
        THEN [cleaned_paragraphs |-> st.cleaned_paragraphs,
              buffer |-> st.buffer \o <<" ">> \o para]
        ELSE IF Len(para) < min_length
        THEN [cleaned_paragraphs |-> st.cleaned_paragraphs, buffer |-> para]
        ELSE [cleaned_paragraphs |->
                  Append(IF st.buffer # <<>>
                         THEN Append(st.cleaned_paragraphs, st.buffer)
                         ELSE st.cleaned_paragraphs, para),
              buffer |-> <<>>]

RECURSIVE para_loop(_, _, _, _)
para_loop(paragraphs, k, st, min_length) ==
    IF k > Len(paragraphs) THEN st
    ELSE para_loop(paragraphs, k + 1,
                   para_step(st, paragraphs[k], min_length), min_length)

cleaned_paragraphs_of(text, min_length) ==
    LET st == para_loop(re_split_blank(text), 1,
                        [cleaned_paragraphs |-> <<>>, buffer |-> <<>>], min_length)
    IN  IF st.buffer # <<>>
        THEN Append(st.cleaned_paragraphs, st.buffer)
        ELSE st.cleaned_paragraphs

\* mutant: a single oversized paragraph is returned as it is
needs_fallback_empty_only(cleaned) == Len(cleaned) = 0

needs_fallback(cleaned) ==
    Len(cleaned) = 0 \/ (Len(cleaned) = 1 /\ Len(cleaned[1]) > FallbackLen)

segment_paragraphs(text, min_length, abbrev) ==
    LET cleaned == cleaned_paragraphs_of(text, min_length)
    IN  IF needs_fallback(cleaned)
        THEN segment_by_length(text, ChunkTarget, abbrev)
        ELSE cleaned

(***************************************************************************)
(* segment_sentences                                                       *)
(***************************************************************************)
\* mutant: a sentence of exactly SentMinLen characters is kept
segment_sentences_keep_ten(text, abbrev) ==
    LET sentences == sent_tokenize(text, abbrev)
        cleaned == [k \in 1..Len(sentences) |-> strip(re_sub_ws(sentences[k]))]
        Meaningful(sent) == Len(sent) >= SentMinLen
    IN  SelectSeq(cleaned, Meaningful)

segment_sentences(text, abbrev) ==
    LET sentences == sent_tokenize(text, abbrev)
        cleaned == [k \in 1..Len(sentences) |-> strip(re_sub_ws(sentences[k]))]
        Meaningful(sent) == Len(sent) > SentMinLen
    IN  SelectSeq(cleaned, Meaningful)

(***************************************************************************)
(* Locator.  A block is [text, page, bbox].                                *)
(***************************************************************************)
\* the inner "for block in blocks" with its break: index of the first
\* block matching, 0 when the loop ends without a match (found = False)
\* mutant: the last matching block wins
RECURSIVE first_para_block_last(_, _, _)
first_para_block_last(paragraph, blocks, j) ==
    IF j > Len(blocks) THEN 0
    ELSE LET later == first_para_block_last(paragraph, blocks, j + 1)
         IN  IF later # 0 THEN later
             ELSE IF Contains(blocks[j].text, Slice(paragraph, 0, ParaPrefix))
                     \/ Contains(paragraph, blocks[j].text)
             THEN j
             ELSE 0

RECURSIVE first_para_block(_, _, _)
first_para_block(paragraph, blocks, j) ==
    IF j > Len(blocks) THEN 0
    ELSE IF Contains(blocks[j].text, Slice(paragraph, 0, ParaPrefix))
            \/ Contains(paragraph, blocks[j].text)
    THEN j
    ELSE first_para_block(paragraph, blocks, j + 1)

\* mutant: a paragraph no block matches is not emitted (no fallback)
map_paragraph_drop(paragraph_data, paragraph, blocks) ==
    LET j == first_para_block(paragraph, blocks, 1)
    IN  IF j # 0
        THEN Append(paragraph_data,
                    [paragraph |-> paragraph, page |-> blocks[j].page,
                     bbox |-> blocks[j].bbox])
        ELSE paragraph_data

\* mutant: the fallback does not test that blocks is non-empty
map_paragraph_unguarded(paragraph_data, paragraph, blocks) ==
    LET j == first_para_block(paragraph, blocks, 1)
    IN  IF j # 0
        THEN Append(paragraph_data,
                    [paragraph |-> paragraph, page |-> blocks[j].page,
                     bbox |-> blocks[j].bbox])
        ELSE Append(paragraph_data,
                    [paragraph |-> paragraph, page |-> 0,
                     bbox |-> [x0 |-> 0, y0 |-> 0, x1 |-> 0, y1 |-> 0]])

map_paragraph(paragraph_data, paragraph, blocks) ==
    LET j == first_para_block(paragraph, blocks, 1)
    IN  IF j # 0
        THEN Append(paragraph_data,
                    [paragraph |-> paragraph, page |-> blocks[j].page,
                     bbox |-> blocks[j].bbox])
        ELSE IF blocks # <<>>
        THEN Append(paragraph_data,
                    [paragraph |-> paragraph, page |-> blocks[1].page,
                     bbox |-> blocks[1].bbox])
        ELSE paragraph_data

RECURSIVE map_paragraphs_loop(_, _, _, _)
map_paragraphs_loop(paragraphs, blocks, k, paragraph_data) ==
    IF k > Len(paragraphs) THEN paragraph_data
    ELSE map_paragraphs_loop(paragraphs, blocks, k + 1,
                             map_paragraph(paragraph_data, paragraphs[k], blocks))

map_paragraphs_to_blocks(paragraphs, blocks) ==
    map_paragraphs_loop(paragraphs, blocks, 1, <<>>)

RECURSIVE first_sent_block(_, _, _)
first_sent_block(sentence, blocks, j) ==
    IF j > Len(blocks) THEN 0
    ELSE IF Contains(blocks[j].text, sentence) THEN j
    ELSE first_sent_block(sentence, blocks, j + 1)

\* mutant: the fallback takes the last block
map_sentence_last_block(sentence_data, sentence, blocks) ==
    LET j == first_sent_block(sentence, blocks, 1)
    IN  IF j # 0
        THEN Append(sentence_data,
                    [sentence |-> sentence, page |-> blocks[j].page,
                     bbox |-> blocks[j].bbox])
        ELSE IF blocks # <<>>
        THEN Append(sentence_data,
                    [sentence |-> sentence, page |-> blocks[Len(blocks)].page,
                     bbox |-> blocks[Len(blocks)].bbox])
        ELSE sentence_data

map_sentence(sentence_data, sentence, blocks) ==
    LET j == first_sent_block(sentence, blocks, 1)
    IN  IF j # 0
        THEN Append(sentence_data,
                    [sentence |-> sentence, page |-> blocks[j].page,
                     bbox |-> blocks[j].bbox])
        ELSE IF blocks # <<>>
        THEN Append(sentence_data,
                    [sentence |-> sentence, page |-> blocks[1].page,
                     bbox |-> blocks[1].bbox])
        ELSE sentence_data

RECURSIVE map_sentences_loop(_, _, _, _)
map_sentences_loop(sentences, blocks, k, sentence_data) ==
    IF k > Len(sentences) THEN sentence_data
    ELSE map_sentences_loop(sentences, blocks, k + 1,
                            map_sentence(sentence_data, sentences[k], blocks))

map_sentences_to_blocks(sentences, blocks) ==
    map_sentences_loop(sentences, blocks, 1, <<>>)

(***************************************************************************)
(* Classifier gateway (utils/vagueness_detector.py).                       *)
(*                                                                         *)
(* Python values of mixed type are tagged: a bool, a str literal, a str    *)
(* that is a unit's text (a character sequence), or None.                  *)
(*                                                                         *)
(* What model.generate_content and response.text do for one call is the    *)
(* outcome of that call:                                                   *)
(*   [kind |-> "raise_generate"]  generate_content raises (transport,      *)
(*                                availability, rejected API key)          *)
(*   [kind |-> "raise_text"]      response.text raises (no usable part)    *)
(*   [kind |-> "text", text |-> s] response.text is s                      *)
(* In a response text a JSON document is one symbol of JsonSymbols; every  *)
(* other element is an ordinary character.                                 *)
(***************************************************************************)
PyBool(b) == [t |-> "bool", v |-> b]
PyStr(x) == [t |-> "str", v |-> x]
PyText(cs) == [t |-> "text", v |-> cs]

\* bool(x) of Python
Truthy(x) ==
    IF x.t = "bool" THEN x.v
    ELSE IF x.t = "str" THEN x.v # ""
    ELSE IF x.t = "text" THEN x.v # <<>>
    ELSE FALSE

JsonObject(fields) == [t |-> "object", fields |-> fields]

JsonDoc(sym) ==
    CASE sym = "OBJ_VAGUE" ->
            JsonObject([is_vague |-> PyBool(TRUE), reason |-> PyStr("reason-1"),
                        suggestion |-> PyStr("suggestion-1")])
      [] sym = "OBJ_CLEAR" ->
            JsonObject([is_vague |-> PyBool(FALSE), reason |-> PyStr("reason-2"),
                        suggestion |-> PyStr("suggestion-2")])
      [] sym = "OBJ_EMPTY" -> JsonObject(<<>>)
      [] sym = "OBJ_STR" ->
            JsonObject([is_vague |-> PyStr("false"), reason |-> PyStr("reason-3")])
      [] sym = "ARRAY" -> [t |-> "array"]
      [] sym = "NULL" -> [t |-> "null"]

JsonSymbols == {"OBJ_VAGUE", "OBJ_CLEAR", "OBJ_EMPTY", "OBJ_STR", "ARRAY", "NULL"}

StartsWith(s, prefix) ==
    Len(s) >= Len(prefix) /\ SubSeq(s, 1, Len(prefix)) = prefix

\* the backquote character is written "BQ"
Fence == <<"BQ", "BQ", "BQ">>

\* s.split(Fence)[1] for an s that starts with the fence
split_fence_1(s) ==
    LET rest == SubSeq(s, Len(Fence) + 1, Len(s))
        IsFence(k) == k + Len(Fence) - 1 <= Len(rest)
                      /\ SubSeq(rest, k, k + Len(Fence) - 1) = Fence
        hits == SelectSeq(Idx(rest), IsFence)
    IN  IF hits = <<>> THEN rest ELSE SubSeq(rest, 1, hits[1] - 1)

\* json.loads(s): [ok |-> TRUE, value |-> v], or [ok |-> FALSE] for a
\* json.JSONDecodeError.  Whitespace around the document is allowed.
json_loads(s) ==
    LET body == strip(s)
    IN  IF Len(body) = 1 /\ body[1] \in JsonSymbols
        THEN [ok |-> TRUE, value |-> JsonDoc(body[1])]
        ELSE [ok |-> FALSE]

\* result.get(key, default) of a dict
dict_get(fields, key, default) ==
    IF key \in DOMAIN fields THEN fields[key] ELSE default

\* mutant: a fenced response is parsed with its fence
parse_response_keep_fence(text) ==
    LET parsed == json_loads(strip(text))
    IN  IF ~parsed.ok THEN [raised |-> "JSONDecodeError"]
        ELSE IF parsed.value.t # "object" THEN [raised |-> "Exception"]
        ELSE [raised |-> "none",
              value |->
                 [is_vague |-> dict_get(parsed.value.fields, "is_vague", PyBool(FALSE)),
                  reason |-> dict_get(parsed.value.fields, "reason",
                                      PyStr("No reason provided")),
                  suggestion |-> dict_get(parsed.value.fields, "suggestion",
                                          PyStr("No suggestion provided"))]]

\* the body of the try block, lines 60-75 / 135-150, once response.text is
\* known; [raised |-> "JSONDecodeError" | "Exception" | "none", value]
parse_response(text) ==
    LET stripped == strip(text)
        response_text ==
            IF StartsWith(stripped, Fence)
            THEN LET inner == split_fence_1(stripped)
                 IN  IF StartsWith(inner, <<"j", "s", "o", "n">>)
                     THEN Slice(inner, 4, Len(inner))
                     ELSE inner
            ELSE stripped
        parsed == json_loads(response_text)
    IN  IF ~parsed.ok THEN [raised |-> "JSONDecodeError"]
        ELSE IF parsed.value.t # "object" THEN [raised |-> "Exception"]
        ELSE [raised |-> "none",
              value |->
                 [is_vague |-> dict_get(parsed.value.fields, "is_vague", PyBool(FALSE)),
                  reason |-> dict_get(parsed.value.fields, "reason",
                                      PyStr("No reason provided")),
                  suggestion |-> dict_get(parsed.value.fields, "suggestion",
                                          PyStr("No suggestion provided"))]]

try_block(outcome) ==
    IF outcome.kind \in {"raise_generate", "raise_text"}
    THEN [raised |-> "Exception"]
    ELSE parse_response(outcome.text)

\* what a call gives back to its caller: a returned value or an exception
Return(v) == [raised |-> FALSE, value |-> v]
Raise == [raised |-> TRUE]

\* mutant: no "except Exception" clause, the exception reaches the caller
analyze_paragraph_no_except(paragraph, api_key_arg, outcome) ==
    LET r == try_block(outcome)
    IN  IF r.raised = "none" THEN Return(r.value)
        ELSE IF r.raised = "JSONDecodeError"
        THEN Return([is_vague |-> PyBool(FALSE),
                     reason |-> PyStr("Error parsing response: ..."),
                     suggestion |-> PyText(paragraph)])
        ELSE Raise

\* mutant: the fallback suggestion is the default text, not the paragraph
analyze_paragraph_default_suggestion(paragraph, api_key_arg, outcome) ==
    LET r == try_block(outcome)
    IN  IF r.raised = "none" THEN Return(r.value)
        ELSE IF r.raised = "JSONDecodeError"
        THEN Return([is_vague |-> PyBool(FALSE),
                     reason |-> PyStr("Error parsing response: ..."),
                     suggestion |-> PyStr("No suggestion provided")])
        ELSE Return([is_vague |-> PyBool(FALSE),
                     reason |-> PyStr("Error analyzing paragraph: ..."),
                     suggestion |-> PyText(paragraph)])

\* api_key_arg is handed to genai.configure; what the service does with it
\* shows in the outcome of the call (see OutcomesFor)
analyze_paragraph(paragraph, api_key_arg, outcome) ==
    LET r == try_block(outcome)
    IN  IF r.raised = "none" THEN Return(r.value)
        ELSE IF r.raised = "JSONDecodeError"
        THEN Return([is_vague |-> PyBool(FALSE),
                     reason |-> PyStr("Error parsing response: ..."),
                     suggestion |-> PyText(paragraph)])
        ELSE Return([is_vague |-> PyBool(FALSE),
                     reason |-> PyStr("Error analyzing paragraph: ..."),
                     suggestion |-> PyText(paragraph)])

analyze_sentence(sentence, api_key_arg, outcome) ==
    LET r == try_block(outcome)
    IN  IF r.raised = "none" THEN Return(r.value)
        ELSE IF r.raised = "JSONDecodeError"
        THEN Return([is_vague |-> PyBool(FALSE),
                     reason |-> PyStr("Error parsing response: ..."),
                     suggestion |-> PyText(sentence)])
        ELSE Return([is_vague |-> PyBool(FALSE),
                     reason |-> PyStr("Error analyzing sentence: ..."),
                     suggestion |-> PyText(sentence)])

(***************************************************************************)
(* Inputs of the segmenter and locator checks.                             *)
(***************************************************************************)
MaxParas == 3
MaxAbbrev == 1
MaxUnits == 2
MaxBlocks == 2
SmallTarget == 20

Short1 == <<"s", "h", "o", "r", "t", "1">>
Short2 == <<"s", "h", "o", "r", "t", "2">>
Long62 ==
    <<"T", "h", "i", "s", " ", "i", "s", " ", "l", "o", "n", "g", " ", "e",
      "n", "o", "u", "g", "h", " ", "t", "e", "x", "t", " ", "e", "x", "c",
      "e", "e", "d", "i", "n", "g", " ", "f", "i", "f", "t", "y", " ", "c",
      "h", "a", "r", "a", "c", "t", "e", "r", "s", " ", "t", "o", "t", "a",
      "l", " ", "h", "e", "r", "e">>

B9 == Rep("b", 8) \o <<".">>
A10 == Rep("a", 9) \o <<".">>
C49 == Rep("c", 20) \o <<".", " ", " ">> \o Rep("d", 26) \o <<".">>
D50 == Rep("d", 49) \o <<".">>
E250 == Rep("e", 249) \o <<".">>

ParaPool == <<B9, A10, C49, D50, Long62, E250>>

\* the text of three blank-line-separated paragraphs short1, short2, long
MergeText == Join(<<Short1, Short2, Long62>>, <<"\n", "\n">>)

\* two short paragraphs, a long one, and a trailing short one
FlushText == Join(<<A10, C49, D50, A10>>, <<"\n", "\n">>)

\* texts without a blank line: a short one and two long ones wrapped over two
\* lines, neither with a sentence boundary, and one long paragraph of five
\* sentences
Wrapped == <<"a", "b", "\n", "c", "d">>
Wrapped1000 == Rep("h", 499) \o <<"\n">> \o Rep("h", 500)
LongWrapped == Rep("g", 600) \o <<"\n">> \o Rep("g", 600)
LongPara == Join(<<E250, E250, E250, E250, E250>>, <<" ">>)

\* a noise paragraph in front of a paragraph longer than the fallback limit
NoiseThenLong == B9 \o <<"\n", "\n">> \o LongPara

SeqsUpTo(S, n) == UNION {[1..k -> S] : k \in 0..n}

Formats ==
    {[lead |-> <<>>, sep |-> <<"\n", "\n">>, trail |-> <<>>],
     [lead |-> <<"\n">>, sep |-> <<"\n", " ", "\t", "\n">>, trail |-> <<" ">>]}

SegTexts ==
    {f.lead \o Join([i \in 1..Len(c) |-> ParaPool[c[i]]], f.sep) \o f.trail :
        c \in SeqsUpTo(1..Len(ParaPool), MaxParas), f \in Formats}
    \cup {MergeText, FlushText, Wrapped, Wrapped1000, LongWrapped, LongPara,
          NoiseThenLong}

MinLengths == {DefaultMinLength, NoiseLen + 1}
Targets == {ChunkTarget, SmallTarget, SmallTarget - 1}

D50A10 == D50 \o <<" ">> \o A10
A10B9 == A10 \o <<" ">> \o B9
UnitPool == {Long62, A10, A10B9, D50A10}

BBox(n) == [x0 |-> n, y0 |-> n, x1 |-> n + 1, y1 |-> n + 1]
BlockPool ==
    {[text |-> D50, page |-> 2, bbox |-> BBox(1)],
     [text |-> A10 \o <<" ">> \o B9 \o <<" ">> \o Long62, page |-> 1, bbox |-> BBox(2)],
     [text |-> B9, page |-> 3, bbox |-> BBox(3)],
     [text |-> <<"z", "z", "z">>, page |-> 4, bbox |-> BBox(4)],
     [text |-> A10, page |-> 5, bbox |-> BBox(5)]}

\* initialize_session_state, no file uploaded, default widget values
NoFile == [type |-> "none"]

AppIdle ==
    /\ api_key = ""
    /\ analysis_complete = FALSE
    /\ is_analyzing = FALSE
    /\ results_list = <<>>
    /\ current_progress = 0
    /\ total_sentences = 0
    /\ uploaded_file = NoFile
    /\ analysis_mode = "Paragraph-based (Recommended)"
    /\ notice = "none"
    /\ pc = "idle"
    /\ use_paragraphs = TRUE
    /\ run_blocks = <<>>
    /\ text_units = <<>>
    /\ text_data = <<>>
    /\ loop_i = 0
    /\ b_items = <<>>
    /\ b_callback = FALSE
    /\ b_results = <<>>
    /\ b_progress = <<>>
    /\ calls = <<>>
    /\ returns = <<>>
    /\ inflight = 0

HarnessIdle ==
    /\ h_op = "none"
    /\ h_text = <<>>
    /\ h_min = 0
    /\ h_abbrev = {}
    /\ h_units = <<>>
    /\ h_blocks = <<>>
    /\ h_out = <<>>

(***************************************************************************)
(* Segmenter check: a text and a tokenizer behaviour are given, one of the *)
(* three segmenting functions is applied to it.                            *)
(***************************************************************************)
InitSeg ==
    /\ AppIdle
    /\ h_op = "none"
    /\ h_text \in SegTexts
    /\ h_abbrev \in SUBSET (1..MaxAbbrev)
    /\ h_min = 0
    /\ h_units = <<>>
    /\ h_blocks = <<>>
    /\ h_out = <<>>

CallSegmentParagraphs ==
    /\ h_op = "none"
    /\ \E min_length \in MinLengths :
          /\ h_min' = min_length
          /\ h_out' = segment_paragraphs(h_text, min_length, h_abbrev)
    /\ h_op' = "segment_paragraphs"
    /\ UNCHANGED <<h_text, h_abbrev, h_units, h_blocks, appvars>>

CallSegmentByLength ==
    /\ h_op = "none"
    /\ \E target_length \in Targets :
          /\ h_min' = target_length
          /\ h_out' = segment_by_length(h_text, target_length, h_abbrev)
    /\ h_op' = "segment_by_length"
    /\ UNCHANGED <<h_text, h_abbrev, h_units, h_blocks, appvars>>

CallSegmentSentences ==
    /\ h_op = "none"
    /\ h_out' = segment_sentences(h_text, h_abbrev)
    /\ h_op' = "segment_sentences"
    /\ UNCHANGED <<h_text, h_min, h_abbrev, h_units, h_blocks, appvars>>

NextSeg == CallSegmentParagraphs \/ CallSegmentByLength \/ CallSegmentSentences

SpecSeg == InitSeg /\ [][NextSeg]_vars

(***************************************************************************)
(* Locator check: a list of units and a list of blocks are given, one of   *)
(* the two locator functions is applied to them.                           *)
(***************************************************************************)
InitLoc ==
    /\ AppIdle
    /\ h_op = "none"
    /\ h_units \in SeqsUpTo(UnitPool, MaxUnits)
    /\ h_blocks \in SeqsUpTo(BlockPool, MaxBlocks)
    /\ h_text = <<>>
    /\ h_min = 0
    /\ h_abbrev = {}
    /\ h_out = <<>>

CallMapParagraphs ==
    /\ h_op = "none"
    /\ h_out' = map_paragraphs_to_blocks(h_units, h_blocks)
    /\ h_op' = "map_paragraphs_to_blocks"
    /\ UNCHANGED <<h_text, h_min, h_abbrev, h_units, h_blocks, appvars>>

CallMapSentences ==
    /\ h_op = "none"
    /\ h_out' = map_sentences_to_blocks(h_units, h_blocks)
    /\ h_op' = "map_sentences_to_blocks"
    /\ UNCHANGED <<h_text, h_min, h_abbrev, h_units, h_blocks, appvars>>

NextLoc == CallMapParagraphs \/ CallMapSentences

SpecLoc == InitLoc /\ [][NextLoc]_vars

(***************************************************************************)
(* Documents.  A PDF is [type, readable, pages]: pages[p] is what          *)
(* page.get_text("blocks") gives for page p, each block [x0, y0, x1, y1,   *)
(* text].  A text file is [type, decodable, content].                      *)
(***************************************************************************)
RawBlock(n, text) == [x0 |-> n, y0 |-> n, x1 |-> n + 1, y1 |-> n + 1, text |-> text]

A11 == Rep("a", 10) \o <<".">>
B12 == Rep("b", 11) \o <<".">>

TxtDoc ==
    [type |-> "txt", decodable |-> TRUE,
     content |-> <<"\n">> \o A11 \o <<" ">> \o B12 \o <<"\n", "\n">> \o D50]
TxtUndecodable == [type |-> "txt", decodable |-> FALSE, content |-> <<>>]
PdfDoc ==
    [type |-> "pdf", readable |-> TRUE,
     pages |-> << <<RawBlock(1, <<" ">> \o Long62 \o <<".", "\n">>),
                    RawBlock(2, <<" ", "\n">>)>>,
                  <<RawBlock(3, A11 \o <<"\n">>)>> >>]
PdfNoText ==
    [type |-> "pdf", readable |-> TRUE, pages |-> << <<RawBlock(1, <<"\n">>)>> >>]
PdfCorrupt == [type |-> "pdf", readable |-> FALSE, pages |-> <<>>]

Files == {TxtDoc, TxtUndecodable, PdfDoc, PdfNoText, PdfCorrupt}

\* the blocks of one page, lines 28-42
RECURSIVE page_blocks(_, _, _, _)
page_blocks(raw, page_no, k, data) ==
    IF k > Len(raw) THEN data
    ELSE LET text == strip(raw[k].text)
         IN  page_blocks(raw, page_no, k + 1,
                 IF text # <<>>
                 THEN Append(data,
                        [page |-> page_no, text |-> text,
                         bbox |-> [x0 |-> raw[k].x0, y0 |-> raw[k].y0,
                                   x1 |-> raw[k].x1, y1 |-> raw[k].y1]])
                 ELSE data)

RECURSIVE doc_blocks(_, _, _)
doc_blocks(pages, page_no, data) ==
    IF page_no > Len(pages) THEN data
    ELSE doc_blocks(pages, page_no + 1,
                    page_blocks(pages[page_no], page_no, 1, data))

\* mutant: a document that cannot be opened yields an empty block list
extract_text_with_location_silent(pdf) ==
    IF ~pdf.readable THEN Return(<<>>)
    ELSE Return(doc_blocks(pdf.pages, 1, <<>>))

extract_text_with_location(pdf) ==
    IF ~pdf.readable THEN Raise
    ELSE Return(doc_blocks(pdf.pages, 1, <<>>))

process_file(file) ==
    IF file.type = "pdf"
    THEN LET r == extract_text_with_location(file)
         IN  IF r.raised THEN Raise
             ELSE Return([full_text |->
                              Join([k \in 1..Len(r.value) |-> r.value[k].text], <<" ">>),
                          blocks |-> r.value])
    ELSE IF ~file.decodable THEN Raise
    ELSE Return([full_text |-> file.content,
                 blocks |-> <<[text |-> file.content, page |-> 1,
                               bbox |-> [x0 |-> 0, y0 |-> 0, x1 |-> 0, y1 |-> 0]]>>])

(***************************************************************************)
(* Outcomes of a classifier call.                                          *)
(***************************************************************************)
RespPlainVague == <<"OBJ_VAGUE">>
RespFencedClear ==
    Fence \o <<"j", "s", "o", "n", "\n", "OBJ_CLEAR", "\n">> \o Fence \o <<"\n">>
RespFencedEmptyObject == Fence \o <<"\n", "OBJ_EMPTY", "\n">> \o Fence
RespStringVerdict == <<"OBJ_STR">>
RespProse == <<"S", "u", "r", "e", ":", " ", "OBJ_VAGUE">>
RespArray == <<" ", "ARRAY", "\n">>

TextOutcome(s) == [kind |-> "text", text |-> s]

Outcomes ==
    {[kind |-> "raise_generate"], [kind |-> "raise_text"]}
    \cup {TextOutcome(s) : s \in {RespPlainVague, RespFencedClear,
                                   RespFencedEmptyObject, RespStringVerdict,
                                   RespProse, RespArray}}

\* the service rejects every request made with an invalid key
OutcomesFor(key) ==
    IF key = "valid" THEN Outcomes ELSE {[kind |-> "raise_generate"]}

ApiKeys == {"", "valid", "invalid"}
AnalysisModes == {"Paragraph-based (Recommended)", "Sentence-based"}

(***************************************************************************)
(* The application (app.py).  Between script runs pc = "idle"; the Analyze *)
(* handler runs at pc = "loop" (top of the for loop) and pc = "classify"   *)
(* (inside analyze_paragraph / analyze_sentence, waiting for the service). *)
(***************************************************************************)
SetApiKey ==
    /\ pc = "idle"
    /\ \E key \in ApiKeys : key # api_key /\ api_key' = key
    /\ UNCHANGED <<analysis_complete, is_analyzing, results_list, current_progress,
                   total_sentences, widgets, notice, pc, locals, batch, gateway, hvars>>

UploadFile ==
    /\ pc = "idle"
    /\ \E file \in Files \cup {NoFile} : file # uploaded_file /\ uploaded_file' = file
    /\ UNCHANGED <<session, analysis_mode, notice, pc, locals, batch, gateway, hvars>>

SelectMode ==
    /\ pc = "idle"
    /\ \E mode \in AnalysisModes : mode # analysis_mode /\ analysis_mode' = mode
    /\ UNCHANGED <<session, uploaded_file, notice, pc, locals, batch, gateway, hvars>>

\* "Clear Session": every key but api_key is deleted, the rerun initializes them
ClearSession ==
    /\ pc = "idle"
    /\ analysis_complete' = FALSE
    /\ is_analyzing' = FALSE
    /\ results_list' = <<>>
    /\ current_progress' = 0
    /\ total_sentences' = 0
    /\ notice' = "none"
    /\ UNCHANGED <<api_key, widgets, pc, locals, batch, gateway, hvars>>

\* lines 313-315: the text of a located unit
unit_text(unit_info) ==
    IF "paragraph" \in DOMAIN unit_info /\ unit_info.paragraph # <<>>
    THEN unit_info.paragraph
    ELSE unit_info.sentence

\* "Analyze Document" pressed: lines 238-311, up to the for loop
ClickAnalyze ==
    /\ pc = "idle"
    /\ uploaded_file # NoFile
    /\ IF api_key = ""
       THEN /\ notice' = "api_key_required"
            /\ UNCHANGED <<session, pc, locals, gateway>>
       ELSE \E abbrev \in SUBSET (1..MaxAbbrev) :
            LET paragraphs_mode == analysis_mode = "Paragraph-based (Recommended)"
                r == process_file(uploaded_file)
                units == IF paragraphs_mode
                         THEN segment_paragraphs(r.value.full_text,
                                                 DefaultMinLength, abbrev)
                         ELSE segment_sentences(r.value.full_text, abbrev)
            IN  /\ results_list' = <<>>
                /\ current_progress' = 0
                /\ analysis_complete' = FALSE
                /\ use_paragraphs' = paragraphs_mode
                /\ loop_i' = 0
                /\ calls' = <<>>
                /\ returns' = <<>>
                /\ inflight' = 0
                /\ UNCHANGED api_key
                /\ IF r.raised
                   THEN /\ is_analyzing' = FALSE
                        /\ notice' = "error"
                        /\ pc' = "idle"
                        /\ run_blocks' = <<>>
                        /\ text_units' = <<>>
                        /\ text_data' = <<>>
                        /\ UNCHANGED total_sentences
                   ELSE /\ is_analyzing' = TRUE
                        /\ notice' = "in_progress"
                        /\ pc' = "loop"
                        /\ run_blocks' = r.value.blocks
                        /\ text_units' = units
                        /\ total_sentences' = Len(units)
                        /\ text_data' =
                              IF paragraphs_mode
                              THEN map_paragraphs_to_blocks(units, r.value.blocks)
                              ELSE map_sentences_to_blocks(units, r.value.blocks)
    /\ UNCHANGED <<widgets, batch, hvars>>

\* mutant: the next unit's call is started while a call is still in flight
CallClassifier_Overlap ==
    /\ pc \in {"loop", "classify"}
    /\ Len(calls) < Len(text_data)
    /\ pc' = "classify"
    /\ calls' = Append(calls, Len(calls) + 1)
    /\ inflight' = inflight + 1
    /\ UNCHANGED <<session, widgets, notice, locals, batch, returns, hvars>>

\* lines 313-326: the next iteration starts and calls the classifier
CallClassifier ==
    /\ pc = "loop"
    /\ loop_i < Len(text_data)
    /\ pc' = "classify"
    /\ calls' = Append(calls, loop_i + 1)
    /\ inflight' = inflight + 1
    /\ UNCHANGED <<session, widgets, notice, locals, batch, returns, hvars>>

\* lines 328-336
result_record(unit_info, analysis) ==
    [Text |-> unit_text(unit_info),
     IsVague |-> IF Truthy(analysis.is_vague) THEN "Yes" ELSE "No",
     Reason |-> analysis.reason,
     Suggestion |-> analysis.suggestion,
     Page |-> unit_info.page,
     Location |-> unit_info.page]

\* mutant: the new record is put in front of the collection
ClassifierReturns_Prepend ==
    /\ pc = "classify"
    /\ \E outcome \in OutcomesFor(api_key) :
          LET unit_info == text_data[loop_i + 1]
              text_unit == unit_text(unit_info)
              analysis == IF use_paragraphs
                          THEN analyze_paragraph(text_unit, api_key, outcome)
                          ELSE analyze_sentence(text_unit, api_key, outcome)
          IN  /\ returns' = Append(returns, [unit |-> text_unit, outcome |-> outcome,
                                             analysis |-> analysis])
              /\ inflight' = inflight - 1
              /\ IF analysis.raised
                 THEN /\ notice' = "error"
                      /\ is_analyzing' = FALSE
                      /\ pc' = "idle"
                      /\ UNCHANGED <<results_list, current_progress, loop_i>>
                 ELSE /\ results_list' =
                             <<result_record(unit_info, analysis.value)>> \o results_list
                      /\ current_progress' = loop_i + 1
                      /\ loop_i' = loop_i + 1
                      /\ pc' = "loop"
                      /\ UNCHANGED <<notice, is_analyzing>>
    /\ UNCHANGED <<api_key, analysis_complete, total_sentences, widgets,
                   use_paragraphs, run_blocks, text_units, text_data, batch,
                   calls, hvars>>

\* lines 324-340, and the handler of line 404 if the call raises
ClassifierReturns ==
    /\ pc = "classify"
    /\ \E outcome \in OutcomesFor(api_key) :
          LET unit_info == text_data[loop_i + 1]
              text_unit == unit_text(unit_info)
              analysis == IF use_paragraphs
                          THEN analyze_paragraph(text_unit, api_key, outcome)
                          ELSE analyze_sentence(text_unit, api_key, outcome)
          IN  /\ returns' = Append(returns, [unit |-> text_unit, outcome |-> outcome,
                                             analysis |-> analysis])
              /\ inflight' = inflight - 1
              /\ IF analysis.raised
                 THEN /\ notice' = "error"
                      /\ is_analyzing' = FALSE
                      /\ pc' = "idle"
                      /\ UNCHANGED <<results_list, current_progress, loop_i>>
                 ELSE /\ results_list' =
                             Append(results_list, result_record(unit_info, analysis.value))
                      /\ current_progress' = loop_i + 1
                      /\ loop_i' = loop_i + 1
                      /\ pc' = "loop"
                      /\ UNCHANGED <<notice, is_analyzing>>
    /\ UNCHANGED <<api_key, analysis_complete, total_sentences, widgets,
                   use_paragraphs, run_blocks, text_units, text_data, batch,
                   calls, hvars>>

\* mutant: the run is marked complete while is_analyzing stays set
FinishRun_StillAnalyzing ==
    /\ pc = "loop"
    /\ loop_i = Len(text_data)
    /\ analysis_complete' = TRUE
    /\ notice' = "complete"
    /\ pc' = "idle"
    /\ UNCHANGED <<api_key, is_analyzing, results_list, current_progress,
                   total_sentences, widgets, locals, batch, gateway, hvars>>

\* lines 393-402: the loop is over
FinishRun ==
    /\ pc = "loop"
    /\ loop_i = Len(text_data)
    /\ analysis_complete' = TRUE
    /\ is_analyzing' = FALSE
    /\ notice' = "complete"
    /\ pc' = "idle"
    /\ UNCHANGED <<api_key, results_list, current_progress, total_sentences,
                   widgets, locals, batch, gateway, hvars>>

(***************************************************************************)
(* analyze_batch(items, api_key, progress_callback, model_name,            *)
(* use_paragraphs): pc = "batch_loop" at the top of its for loop,          *)
(* "batch_classify" inside analyze_func, "batch_done" once it has returned *)
(* b_results.  b_progress lists the arguments of the callback's calls.     *)
(***************************************************************************)
MaxItems == 2
BatchItems == SeqsUpTo({A10, Long62}, MaxItems)

BatchCall ==
    /\ pc = "batch_loop"
    /\ loop_i < Len(b_items)
    /\ pc' = "batch_classify"
    /\ calls' = Append(calls, loop_i + 1)
    /\ inflight' = inflight + 1
    /\ UNCHANGED <<session, widgets, notice, locals, batch, returns, hvars>>

BatchReturn ==
    /\ pc = "batch_classify"
    /\ \E outcome \in OutcomesFor(api_key) :
          LET item == b_items[loop_i + 1]
              result == IF use_paragraphs
                        THEN analyze_paragraph(item, api_key, outcome)
                        ELSE analyze_sentence(item, api_key, outcome)
          IN  /\ returns' = Append(returns, [unit |-> item, outcome |-> outcome,
                                             analysis |-> result])
              /\ inflight' = inflight - 1
              /\ IF result.raised
                 THEN /\ pc' = "batch_raised"
                      /\ UNCHANGED <<b_results, b_progress, loop_i>>
                 ELSE /\ b_results' = Append(b_results, result.value)
                      /\ b_progress' = IF b_callback
                                       THEN Append(b_progress, <<loop_i + 1, Len(b_items)>>)
                                       ELSE b_progress
                      /\ loop_i' = loop_i + 1
                      /\ pc' = "batch_loop"
    /\ UNCHANGED <<session, widgets, notice, use_paragraphs, run_blocks, text_units,
                   text_data, b_items, b_callback, calls, hvars>>

BatchFinish ==
    /\ pc = "batch_loop"
    /\ loop_i = Len(b_items)
    /\ pc' = "batch_done"
    /\ UNCHANGED <<session, widgets, notice, locals, batch, gateway, hvars>>

InitApp == AppIdle /\ HarnessIdle

InitBatch ==
    /\ HarnessIdle
    /\ api_key \in {"valid", "invalid"}
    /\ analysis_complete = FALSE
    /\ is_analyzing = FALSE
    /\ results_list = <<>>
    /\ current_progress = 0
    /\ total_sentences = 0
    /\ uploaded_file = NoFile
    /\ analysis_mode = "Paragraph-based (Recommended)"
    /\ notice = "none"
    /\ pc = "batch_loop"
    /\ use_paragraphs \in BOOLEAN
    /\ run_blocks = <<>>
    /\ text_units = <<>>
    /\ text_data = <<>>
    /\ loop_i = 0
    /\ b_items \in BatchItems
    /\ b_callback \in BOOLEAN
    /\ b_results = <<>>
    /\ b_progress = <<>>
    /\ calls = <<>>
    /\ returns = <<>>
    /\ inflight = 0

Init == InitApp \/ InitBatch

RunStep == CallClassifier \/ ClassifierReturns \/ FinishRun

Next ==
    \/ SetApiKey \/ UploadFile \/ SelectMode \/ ClearSession
    \/ ClickAnalyze \/ CallClassifier \/ ClassifierReturns \/ FinishRun
    \/ BatchCall \/ BatchReturn \/ BatchFinish

Spec == Init /\ [][Next]_vars

\* the Analyze handler is one synchronous script run: once started it goes
\* on as long as it can; every call to the service returns or raises, and no
\* widget event is delivered while the handler runs (the widget actions are
\* guarded by pc = "idle")
LiveSpec == Spec /\ WF_vars(RunStep)

(***************************************************************************)
(* Properties of the locator (SpecLoc).                                    *)
(***************************************************************************)
LocatorCalled == h_op \in {"map_paragraphs_to_blocks", "map_sentences_to_blocks"}

UnitTextOf(entry) ==
    IF h_op = "map_paragraphs_to_blocks" THEN entry.paragraph ELSE entry.sentence

\* C1: locator completeness.  With a non-empty block list each locator
\* function returns exactly one entry per unit, in the order of the units,
\* the i-th entry carrying the i-th unit's text.
C1_LocatorCompleteness ==
    (LocatorCalled /\ h_blocks # <<>>) =>
        /\ Len(h_out) = Len(h_units)
        /\ \A i \in 1..Len(h_units) : UnitTextOf(h_out[i]) = h_units[i]

\* two units located, the first by the fallback, the second by a match
C1_Witness ==
    /\ h_op = "map_paragraphs_to_blocks"
    /\ h_blocks # <<>>
    /\ Len(h_units) = 2
    /\ first_para_block(h_units[1], h_blocks, 1) = 0
    /\ first_para_block(h_units[2], h_blocks, 1) # 0
    /\ Len(h_out) = 2

ParaMatch(unit, block) ==
    \/ Contains(block.text, SubSeq(unit, 1, IF Len(unit) < 50 THEN Len(unit) ELSE 50))
    \/ Contains(unit, block.text)

SentMatch(unit, block) == Contains(block.text, unit)

Matches(unit) ==
    {j \in 1..Len(h_blocks) :
        IF h_op = "map_paragraphs_to_blocks"
        THEN ParaMatch(unit, h_blocks[j])
        ELSE SentMatch(unit, h_blocks[j])}

Lowest(S) == CHOOSE j \in S : \A k \in S : j <= k

\* C16: first-match rule.  A unit that some block matches gets the page and
\* bbox of the lowest-index matching block; in paragraph mode a block matches
\* if it holds the unit's first 50 characters or is itself held by the unit,
\* in sentence mode if it holds the whole unit.
C16_FirstMatchRule ==
    (LocatorCalled /\ h_blocks # <<>>) =>
        \A i \in 1..Len(h_units) :
            Matches(h_units[i]) # {} =>
                /\ h_out[i].page = h_blocks[Lowest(Matches(h_units[i]))].page
                /\ h_out[i].bbox = h_blocks[Lowest(Matches(h_units[i]))].bbox

\* two blocks of different pages match the unit, the first one is taken
C16_Witness ==
    /\ LocatorCalled
    /\ Len(h_blocks) = 2
    /\ h_blocks[1].page # h_blocks[2].page
    /\ Len(h_units) >= 1
    /\ Matches(h_units[1]) = {1, 2}
    /\ h_out[1].page = h_blocks[1].page

\* C17: locator fallback determinism.  A unit that no block of a non-empty
\* block list matches is still emitted, with the page and bbox of blocks[0].
C17_FallbackDeterminism ==
    (LocatorCalled /\ h_blocks # <<>>) =>
        \A i \in 1..Len(h_units) :
            Matches(h_units[i]) = {} =>
                /\ UnitTextOf(h_out[i]) = h_units[i]
                /\ h_out[i].page = h_blocks[1].page
                /\ h_out[i].bbox = h_blocks[1].bbox

\* no block matches the sentence; the first of two blocks is not on page 1
C17_Witness ==
    /\ h_op = "map_sentences_to_blocks"
    /\ Len(h_blocks) = 2
    /\ h_blocks[1].page > 1
    /\ h_blocks[2].page # h_blocks[1].page
    /\ Len(h_units) >= 1
    /\ Matches(h_units[1]) = {}
    /\ h_out[1].page = h_blocks[1].page

\* C18: with an empty block list both locator functions return an empty
\* list, whatever the units.
C18_EmptyBlockList ==
    (LocatorCalled /\ h_blocks = <<>>) => h_out = <<>>

\* two units, no block: nothing is returned
C18_Witness ==
    /\ LocatorCalled
    /\ h_blocks = <<>>
    /\ Len(h_units) = 2
    /\ h_out = <<>>

(***************************************************************************)
(* Properties of the segmenter (SpecSeg).                                  *)
(***************************************************************************)
MergeCase ==
    /\ h_op = "segment_paragraphs"
    /\ h_text = MergeText
    /\ h_min = DefaultMinLength

RetainedCandidates(text) ==
    LET pieces == re_split_blank(text)
        norm == [k \in 1..Len(pieces) |-> strip(re_sub_ws(pieces[k]))]
        Retained(c) == Len(c) >= NoiseLen
    IN  SelectSeq(norm, Retained)

RECURSIVE RefMerge(_, _, _, _)
RefMerge(cands, pending, out, min_length) ==
    IF cands = <<>>
    THEN IF pending # <<>> THEN Append(out, Join(pending, <<" ">>)) ELSE out
    ELSE IF Len(Head(cands)) < min_length
    THEN RefMerge(Tail(cands), Append(pending, Head(cands)), out, min_length)
    ELSE RefMerge(Tail(cands), <<>>,
                  Append(IF pending # <<>>
                         THEN Append(out, Join(pending, <<" ">>)) ELSE out,
                         Head(cands)),
                  min_length)

RefUnits == RefMerge(RetainedCandidates(h_text), <<>>, <<>>, h_min)

\* C8: whenever the merged list is not replaced by the chunking fallback,
\* segment_paragraphs returns exactly what the reference merging procedure
\* returns on the retained candidates.
C8_MergingRule ==
    (h_op = "segment_paragraphs"
     /\ RefUnits # <<>>
     /\ ~(Len(RefUnits) = 1 /\ Len(RefUnits[1]) > FallbackLen))
        => h_out = RefUnits

\* a merged pair flushed by a long paragraph, and a final buffer flush
C8_Witness ==
    /\ h_op = "segment_paragraphs"
    /\ h_min = DefaultMinLength
    /\ h_out = <<A10 \o <<" ">> \o strip(re_sub_ws(C49)), D50, A10>>

Sentences == sent_tokenize(h_text, h_abbrev)

SingleSentenceChunks == {strip(Sentences[k]) : k \in 1..Len(Sentences)}

\* C9 as stated: every chunk of segment_by_length that holds two or more
\* sentences has length <= the target length (h_min holds target_length).
C9_ChunkLengthBound ==
    h_op = "segment_by_length" =>
        \A i \in 1..Len(h_out) :
            h_out[i] \notin SingleSentenceChunks => Len(h_out[i]) <= h_min

\* The groups of consecutive sentences that a set of cut points defines.
GroupsOf(sentences, cuts) ==
    LET n == Len(sentences)
        IsEnd(k) == k \in cuts \/ k = n
        ends == SelectSeq(Idx(sentences), IsEnd)
    IN  [g \in 1..Len(ends) |->
            SubSeq(sentences, IF g = 1 THEN 1 ELSE ends[g - 1] + 1, ends[g])]

\* C10 as stated: the chunks are the single-space joins of consecutive
\* groups of complete tokenizer sentences that cover every sentence once.
C10_ChunkBoundary_Original ==
    h_op = "segment_by_length" =>
        \E cuts \in SUBSET (1..(Len(Sentences) - 1)) :
            LET groups == GroupsOf(Sentences, cuts)
            IN  h_out = [g \in 1..Len(groups) |-> Join(groups[g], <<" ">>)]

\* C10 amended: each chunk is the single-space join of a group of
\* consecutive complete sentences with leading and trailing whitespace
\* stripped; the groups cover every tokenizer sentence once, in order.
C10_ChunkBoundary ==
    h_op = "segment_by_length" =>
        \E cuts \in SUBSET (1..(Len(Sentences) - 1)) :
            LET groups == GroupsOf(Sentences, cuts)
            IN  h_out = [g \in 1..Len(groups) |-> strip(Join(groups[g], <<" ">>))]

\* a text with leading whitespace chunked into two chunks of several sentences
C10_Witness ==
    /\ h_op = "segment_by_length"
    /\ h_text # <<>> /\ IsWs(h_text[1])
    /\ Len(h_out) = 2
    /\ Len(Sentences) >= 4

NoBlankLine == Len(re_split_blank(h_text)) = 1

\* C11 as stated: for a text without blank-line structure segment_paragraphs
\* returns neither an empty list nor a single unit longer than 1000
\* characters.
C11_NoDegenerateSegmentation ==
    (h_op = "segment_paragraphs" /\ NoBlankLine) =>
        /\ h_out # <<>>
        /\ ~(Len(h_out) = 1 /\ Len(h_out[1]) > 1000)

NormalForm(u) ==
    /\ u # <<>>
    /\ ~IsWs(u[1])
    /\ ~IsWs(u[Len(u)])
    /\ \A i \in 1..(Len(u) - 1) : IsWs(u[i]) => (u[i] = " " /\ ~IsWs(u[i + 1]))

\* C12 as stated: every unit returned by segment_sentences or by
\* segment_paragraphs, fallback chunks included, is non-empty, trimmed, and
\* holds no whitespace other than single spaces between non-space characters.
C12_UnitNormalForm ==
    h_op \in {"segment_paragraphs", "segment_sentences"} =>
        \A i \in 1..Len(h_out) : NormalForm(h_out[i])

RECURSIVE RefFilter(_, _)
RefFilter(cands, out) ==
    IF cands = <<>> THEN out
    ELSE LET c == strip(re_sub_ws(Head(cands)))
         IN  RefFilter(Tail(cands), IF Len(c) > 10 THEN Append(out, c) ELSE out)

\* C13: sentence mode filter.  segment_sentences returns the tokenizer's
\* sentences, normalized and trimmed, whose normalized length is > 10, in
\* order and with duplicates kept; every emitted unit is longer than 10.
C13_SentenceFilter ==
    h_op = "segment_sentences" =>
        /\ h_out = RefFilter(Sentences, <<>>)
        /\ \A i \in 1..Len(h_out) : Len(h_out[i]) > 10

\* a sentence of exactly 10 characters was discarded between two equal
\* sentences, both of which were kept
C13_Witness ==
    /\ h_op = "segment_sentences"
    /\ Len(Sentences) = 3
    /\ Len(strip(re_sub_ws(Sentences[2]))) = 10
    /\ Len(h_out) = 2
    /\ h_out[1] = h_out[2]

\* the blank-line-delimited candidates, normalized
Candidates ==
    LET pieces == re_split_blank(h_text)
    IN  [k \in 1..Len(pieces) |-> strip(re_sub_ws(pieces[k]))]

CandidatesOfLength(L) ==
    {Candidates[k] : k \in {j \in 1..Len(Candidates) : Len(Candidates[j]) \in L}}

NoiseDiscarded ==
    /\ \A c \in CandidatesOfLength(1..9) :
          \A i \in 1..Len(h_out) : ~Contains(h_out[i], c)
    /\ \A c \in CandidatesOfLength({10}) :
          \E i \in 1..Len(h_out) : Contains(h_out[i], c)

MergedDegenerate ==
    RefUnits = <<>> \/ (Len(RefUnits) = 1 /\ Len(RefUnits[1]) > 1000)

\* C14 as stated: for every text, no candidate of normalized length < 10
\* appears in a unit returned by segment_paragraphs, and a candidate of
\* length exactly 10 is retained.
C14_NoiseDiscard_Original ==
    h_op = "segment_paragraphs" => NoiseDiscarded

\* C14 amended: this holds whenever segment_paragraphs returns the merged
\* paragraph list, whose text is then exactly that of the candidates of
\* length >= 10; the chunking fallback works on the original text, noise
\* candidates included.
C14_NoiseDiscard ==
    (h_op = "segment_paragraphs" /\ ~MergedDegenerate) =>
        /\ NoiseDiscarded
        /\ Join(h_out, <<" ">>) = Join(RetainedCandidates(h_text), <<" ">>)

\* a noise paragraph dropped in front of a retained 10-character paragraph
C14_Witness ==
    /\ h_op = "segment_paragraphs"
    /\ ~MergedDegenerate
    /\ Len(Candidates) = 3
    /\ Len(Candidates[1]) = 9
    /\ Len(Candidates[2]) = 10
    /\ h_out[1] = Candidates[2]

\* C15: fallback trigger.  segment_paragraphs returns the chunks of the
\* original text (target length 500) exactly when the merged paragraph list
\* is empty or is a single unit longer than 1000 characters, and the merged
\* list unchanged otherwise.
C15_FallbackTrigger ==
    h_op = "segment_paragraphs" =>
        h_out = IF MergedDegenerate
                THEN chunks_of(Sentences, 500)
                ELSE RefUnits

\* a single paragraph of 1254 characters was replaced by three chunks
C15_Witness ==
    /\ h_op = "segment_paragraphs"
    /\ h_text = LongPara
    /\ Len(RefUnits) = 1
    /\ Len(h_out) = 3

\* the whitespace-normalized input text
NormText == strip(re_sub_ws(h_text))

\* C21 as stated: every unit returned by segment_sentences or by
\* segment_paragraphs is a contiguous substring of the whitespace-normalized
\* input text.
C21_UnitsFromSource_Original ==
    h_op \in {"segment_sentences", "segment_paragraphs"} =>
        \A i \in 1..Len(h_out) : Contains(NormText, h_out[i])

\* unit is the single-space join of candidates a..b of the retained ones
JoinOfRun(unit, retained) ==
    \E a \in 1..Len(retained) : \E b \in a..Len(retained) :
        unit = Join(SubSeq(retained, a, b), <<" ">>)

\* C21 amended: a sentence-mode unit is a contiguous substring of the
\* normalized text; a unit of the merged paragraph list is the single-space
\* join of consecutive retained candidates, each a contiguous substring of
\* the normalized text (the candidates discarded between them are left
\* out); a chunk of the fallback, once normalized, is a contiguous
\* substring of the normalized text.
C21_UnitsFromSource ==
    LET norm == NormText
        retained == RetainedCandidates(h_text)
        degenerate == MergedDegenerate
    IN  /\ h_op = "segment_sentences" =>
              \A i \in 1..Len(h_out) : Contains(norm, h_out[i])
        /\ (h_op = "segment_paragraphs" /\ ~degenerate) =>
              /\ \A i \in 1..Len(h_out) : JoinOfRun(h_out[i], retained)
              /\ \A k \in 1..Len(retained) : Contains(norm, retained[k])
        /\ (h_op = "segment_paragraphs" /\ degenerate) =>
              \A i \in 1..Len(h_out) :
                  Contains(norm, strip(re_sub_ws(h_out[i])))

\* two short paragraphs were merged over the discarded one between them:
\* the unit is not a substring of the normalized text
C21_Witness ==
    /\ h_op = "segment_paragraphs"
    /\ Len(Candidates) = 3
    /\ Len(Candidates[2]) = 9
    /\ h_out = <<Candidates[1] \o <<" ">> \o Candidates[3]>>
    /\ ~Contains(NormText, h_out[1])

(***************************************************************************)
(* Properties of the analysis run and of the classifier gateway (Spec,     *)
(* LiveSpec).                                                              *)
(***************************************************************************)
InRun == pc \in {"loop", "classify"}
RunEnded == pc = "idle" /\ notice = "complete"

\* C3 as stated: with a missing or invalid API key the run stops before any
\* unit is processed: no classifier call is made, no result is appended.
C3_CredentialPrecondition ==
    (api_key \in {"", "invalid"} /\ InRun) =>
        (pc # "classify" /\ calls = <<>> /\ results_list = <<>>)

RunStarted == pc = "loop" /\ run_blocks # <<>>

RunComplete ==
    /\ pc = "idle"
    /\ analysis_complete
    /\ ~is_analyzing
    /\ Len(results_list) = Len(text_units)
    /\ \A k \in 1..Len(text_units) : results_list[k].Text = text_units[k]

\* C4: pipeline completeness.  A run over a document with a non-empty block
\* list ends, whatever the classifier does, with one result per segmented
\* unit, the k-th result describing the k-th unit.
C4_PipelineCompleteness == [](RunStarted => <>RunComplete)

FailureOutcomes ==
    {[kind |-> "raise_generate"], [kind |-> "raise_text"],
     TextOutcome(RespProse), TextOutcome(RespArray)}

\* a run of three units completed although the classifier raised for the
\* first, answered with a non-object for the second and with prose for the third
C4_Witness ==
    /\ RunComplete
    /\ run_blocks # <<>>
    /\ Len(text_units) = 3
    /\ Len(returns) = 3
    /\ returns[1].outcome.kind = "raise_generate"
    /\ returns[2].outcome = TextOutcome(RespArray)
    /\ returns[3].outcome = TextOutcome(RespProse)

Diagnostics ==
    {PyStr("Error parsing response: ..."), PyStr("Error analyzing paragraph: ..."),
     PyStr("Error analyzing sentence: ...")}

\* C5: classifier failure fallback.  A call whose response is not JSON, is
\* not a JSON object, has no text, or that raises, returns (does not raise)
\* is_vague = false, a diagnostic reason and the unit's text as suggestion.
C5_FailureFallback ==
    \A k \in 1..Len(returns) :
        returns[k].outcome \in FailureOutcomes =>
            /\ ~returns[k].analysis.raised
            /\ returns[k].analysis.value.is_vague = PyBool(FALSE)
            /\ returns[k].analysis.value.reason \in Diagnostics
            /\ returns[k].analysis.value.suggestion = PyText(returns[k].unit)

\* analyze_sentence has handled a non-object response and a response
\* without text in one run
C5_Witness ==
    /\ pc = "loop"
    /\ ~use_paragraphs
    /\ \E k \in 1..Len(returns) : returns[k].outcome = TextOutcome(RespArray)
    /\ \E k \in 1..Len(returns) : returns[k].outcome.kind = "raise_text"

\* the verdict a well-formed answer carries
NormalOutcomes == {TextOutcome(RespPlainVague), TextOutcome(RespFencedClear)}

AnswerOf(outcome) ==
    IF outcome = TextOutcome(RespPlainVague)
    THEN [is_vague |-> TRUE, reason |-> "reason-1", suggestion |-> "suggestion-1"]
    ELSE [is_vague |-> FALSE, reason |-> "reason-2", suggestion |-> "suggestion-2"]

\* C6: gateway failure isolation.  Whatever happens to the other units, a
\* unit the classifier answers normally gets the result built from that
\* answer, and the run completes with one result per unit.
C6_FailureIsolation ==
    /\ (InRun \/ RunEnded) =>
          \A k \in 1..Len(results_list) :
              returns[k].outcome \in NormalOutcomes =>
                  results_list[k] =
                      [Text |-> text_units[k],
                       IsVague |-> IF AnswerOf(returns[k].outcome).is_vague
                                   THEN "Yes" ELSE "No",
                       Reason |-> PyStr(AnswerOf(returns[k].outcome).reason),
                       Suggestion |-> PyStr(AnswerOf(returns[k].outcome).suggestion),
                       Page |-> text_data[k].page,
                       Location |-> text_data[k].page]
    /\ RunEnded => Len(results_list) = Len(text_units)
    /\ \A k \in 1..Len(b_results) :
          returns[k].outcome \in NormalOutcomes =>
              b_results[k] =
                  [is_vague |-> PyBool(AnswerOf(returns[k].outcome).is_vague),
                   reason |-> PyStr(AnswerOf(returns[k].outcome).reason),
                   suggestion |-> PyStr(AnswerOf(returns[k].outcome).suggestion)]
    /\ pc = "batch_done" => Len(b_results) = Len(b_items)

\* three units, the classifier fails for the second only
C6_Witness ==
    /\ RunEnded
    /\ Len(results_list) = 3
    /\ returns[1].outcome = TextOutcome(RespFencedClear)
    /\ returns[2].outcome \in FailureOutcomes
    /\ returns[3].outcome = TextOutcome(RespPlainVague)
    /\ results_list[1].IsVague = "No"
    /\ results_list[3].IsVague = "Yes"

Committed == IF pc \in {"batch_loop", "batch_classify", "batch_done"}
             THEN b_results ELSE results_list

\* C7: sequential single classification.  The classifier is called once per
\* located unit, in list order; the call for the next unit starts only after
\* the previous unit's result has been appended; calls never overlap.
C7_SequentialClassification ==
    /\ inflight <= 1
    /\ calls = [k \in 1..Len(calls) |-> k]
    /\ pc \in {"classify", "batch_classify"} =>
          (inflight = 1 /\ Len(calls) = Len(Committed) + 1)
    /\ pc \in {"loop", "batch_loop"} =>
          (inflight = 0 /\ Len(calls) = Len(Committed))
    /\ RunEnded => Len(calls) = Len(text_data)
    /\ pc = "batch_done" => Len(calls) = Len(b_items)

\* the third unit's call is in flight, two results are committed
C7_Witness ==
    /\ pc = "classify"
    /\ calls = <<1, 2, 3>>
    /\ Len(results_list) = 2
    /\ inflight = 1

RecordFields == {"Text", "IsVague", "Reason", "Suggestion", "Page", "Location"}

ResultAppended ==
    /\ Len(results_list') = Len(results_list) + 1
    /\ SubSeq(results_list', 1, Len(results_list)) = results_list
    /\ DOMAIN results_list'[Len(results_list')] = RecordFields
    /\ current_progress' = Len(results_list')

\* C19: append-only results.  During a run every step leaves the result
\* collection as it is or appends one complete record to it, and between
\* iterations its length and current_progress both equal the number of
\* iterations done.
C19_AppendOnlyResults ==
    [][/\ InRun => (results_list' = results_list \/ ResultAppended)
       /\ (pc' = "loop" \/ (InRun /\ pc' = "idle")) =>
              (Len(results_list') = loop_i' /\ current_progress' = loop_i')]_vars

\* two of three iterations are done
C19_Witness ==
    /\ pc = "loop"
    /\ Len(text_data) = 3
    /\ loop_i = 2
    /\ Len(results_list) = 2
    /\ current_progress = 2
    /\ results_list[1] # results_list[2]

Unextractable(file) ==
    IF file.type = "pdf" THEN ~file.readable
    ELSE IF file.type = "txt" THEN ~file.decodable
    ELSE FALSE

\* C20: extraction failure halts the run.  extract_text_with_location raises
\* for a document that cannot be opened; no run is ever in progress over
\* such a document, and the run that failed has left no unit, no located
\* unit, no classifier call, no result, is_analyzing and analysis_complete
\* both false.
C20_ExtractionFailureHalts ==
    /\ \A f \in Files :
          (f.type = "pdf" /\ ~f.readable) => extract_text_with_location(f).raised
    /\ InRun => ~Unextractable(uploaded_file)
    /\ notice = "error" =>
          /\ results_list = <<>>
          /\ text_units = <<>>
          /\ text_data = <<>>
          /\ calls = <<>>
          /\ ~is_analyzing
          /\ ~analysis_complete

\* Analyze was pressed with a valid key on a PDF that cannot be opened
C20_Witness ==
    /\ notice = "error"
    /\ uploaded_file = PdfCorrupt
    /\ api_key = "valid"
    /\ pc = "idle"
    /\ results_list = <<>>
    /\ ~is_analyzing

\* C22: completion invariant of the session state.  Whenever
\* analysis_complete is set, is_analyzing is not, and the result collection,
\* total_sentences and current_progress agree on the number of units of the
\* last run; a run over an empty block list completes with zero units.
C22_CompletionInvariant ==
    /\ analysis_complete =>
          /\ ~is_analyzing
          /\ Len(results_list) = total_sentences
          /\ current_progress = total_sentences
    /\ (RunEnded /\ run_blocks = <<>>) =>
          /\ analysis_complete
          /\ text_units = <<>>
          /\ total_sentences = 0
          /\ results_list = <<>>

\* a run over the text document has completed with several units
C22_Witness ==
    /\ analysis_complete
    /\ pc = "idle"
    /\ uploaded_file = TxtDoc
    /\ total_sentences >= 2
    /\ Len(results_list) = total_sentences
    /\ current_progress = total_sentences

\* the responses that parse to a JSON object
ObjectOutcomes ==
    {TextOutcome(RespPlainVague), TextOutcome(RespFencedClear),
     TextOutcome(RespFencedEmptyObject), TextOutcome(RespStringVerdict)}

DefaultsApplied ==
    \A k \in 1..Len(returns) :
        returns[k].outcome = TextOutcome(RespFencedEmptyObject) =>
            returns[k].analysis.value =
                [is_vague |-> PyBool(FALSE),
                 reason |-> PyStr("No reason provided"),
                 suggestion |-> PyStr("No suggestion provided")]

\* C23 as stated: for a response that parses to a JSON object the returned
\* is_vague is a boolean, absent fields take their defaults, and a unit is
\* recorded as vague only if the response's is_vague is the boolean true.
C23_VerdictType ==
    /\ DefaultsApplied
    /\ \A k \in 1..Len(returns) :
          returns[k].outcome \in ObjectOutcomes =>
              returns[k].analysis.value.is_vague \in {PyBool(TRUE), PyBool(FALSE)}
    /\ InRun \/ RunEnded =>
          \A k \in 1..Len(results_list) :
              (returns[k].outcome \in ObjectOutcomes
               /\ results_list[k].IsVague = "Yes") =>
                  returns[k].analysis.value.is_vague = PyBool(TRUE)

====
